---- MODULE Spec2Model ----
(***************************************************************************)
(* The clock/calendar widget of src/modules/clock.cpp as a state machine:  *)
(* construction from a configuration, scroll events, pointer-leave events, *)
(* refresh ticks and the passing of wall-clock time.                       *)
(*                                                                         *)
(* Time is counted in slots, SlotsPerDay of them per day, from the epoch   *)
(* 1970-01-01.  A calendar text is a sequence of tokens, one token per     *)
(* character or per formatted field:                                       *)
(*   [k |-> "sp"]            one blank                                     *)
(*   [k |-> "nl"]            one newline                                   *)
(*   [k |-> "wd",    v]      a weekday name, truncated/padded to 2 columns *)
(*   [k |-> "day",   v]      day v ("%e", 2 columns) in format-calendar    *)
(*   [k |-> "today", v]      day v in today-format (default <b><u>..)      *)
(*   [k |-> "week",  v]      format-calendar-weeks applied to sys_days v   *)
(***************************************************************************)
EXTENDS Integers, Sequences, FiniteSets, TLC

\* ------------------------------------------------------------- bounds
MaxScrolls == 2
SlotsPerDay == 2

\* ------------------------------------------------- program constants
Sunday == 0
Monday == 1
DaysPerWeek == 7

\* ----------------------------------------------------- date library
\* date::sys_days{year_month_day}: days since 1970-01-01; a day number past
\* the end of the month runs on into the next month.
days_from_civil(y, m, d) ==
  LET yy  == IF m <= 2 THEN y - 1 ELSE y
      era == yy \div 400
      yoe == yy - (era * 400)
      mp  == IF m > 2 THEN m - 3 ELSE m + 9
      doy == (((153 * mp) + 2) \div 5) + d - 1
      doe == (yoe * 365) + (yoe \div 4) - (yoe \div 100) + doy
  IN  (era * 146097) + doe - 719468

\* date::year_month_day{sys_days}
civil_from_days(z0) ==
  LET z   == z0 + 719468
      era == z \div 146097
      doe == z - (era * 146097)
      yoe == (doe - (doe \div 1460) + (doe \div 36524) - (doe \div 146096)) \div 365
      doy == doe - ((365 * yoe) + (yoe \div 4) - (yoe \div 100))
      mp  == ((5 * doy) + 2) \div 153
      d   == doy - (((153 * mp) + 2) \div 5) + 1
      m   == IF mp < 10 THEN mp + 3 ELSE mp - 9
      y   == yoe + (era * 400)
  IN  [year |-> IF m <= 2 THEN y + 1 ELSE y, month |-> m, day |-> d]

\* date::weekday{sys_days}: 0 = Sunday .. 6 = Saturday (1970-01-01: Thursday)
weekday_of(z) == (z + 4) % DaysPerWeek

\* year_month_day + months: the month moves, the year carries, the day stays
ymd_plus_months(ymd, dm) ==
  LET dmi == ymd.month - 1 + dm
  IN  [year |-> ymd.year + (dmi \div 12), month |-> (dmi % 12) + 1, day |-> ymd.day]

is_leap(y) == (y % 4 = 0) /\ ((y % 100 # 0) \/ (y % 400 = 0))

\* (ym / last).day()
last_day_of(y, m) ==
  IF m = 2 THEN (IF is_leap(y) THEN 29 ELSE 28)
  ELSE IF m \in {4, 6, 9, 11} THEN 30 ELSE 31

\* weekday - weekday: the difference modulo 7, in 0..6
weekday_diff(a, b) == (a - b) % DaysPerWeek

\* ------------------------------------------------------------ tokens
Sp == [k |-> "sp", v |-> 0]
Nl == [k |-> "nl", v |-> 0]
Tok(kind, val) == [k |-> kind, v |-> val]
Blanks(n) == [i \in 1..n |-> Sp]

\* ---------------------------------------------------- calendar text
\* weekdays_header: the seven weekday names from first_week_day on, each cut
\* or padded to two columns, single blanks between them, then a newline.
RECURSIVE HeaderLoop(_, _, _)
HeaderLoop(wd, first_week_day, res) ==
  LET sep  == IF wd # first_week_day THEN <<Sp>> ELSE <<>>
      res2 == res \o sep \o <<Tok("wd", wd)>>
      nxt  == (wd + 1) % DaysPerWeek
  IN  IF nxt # first_week_day THEN HeaderLoop(nxt, first_week_day, res2) ELSE res2

weekdays_header(first_week_day) ==
  HeaderLoop(first_week_day, first_week_day, <<>>) \o <<Nl>>

\* config_["calendar-weeks-pos"]: "left", "right", anything else hides them
WeeksSide(pos) == IF pos = "left" THEN "LEFT" ELSE IF pos = "right" THEN "RIGHT" ELSE "HIDDEN"

\* a faulty CurrDay, to show what the claim rests on: the day of the date shown is highlighted, shifted or not
CurrDay_Always(shift_init, shift, ymd) == ymd.day

\* the day highlighted: none (day 0) while a month shift is active
CurrDay(shift_init, shift, ymd) ==
  IF shift_init # 0 /\ shift # 0 THEN 0 ELSE ymd.day

\* one day cell: today-format for the highlighted day, format-calendar otherwise
DayCell(d, curr_day) == IF d = curr_day THEN Tok("today", d) ELSE Tok("day", d)

\* empty_days = 6 - (wd.c_encoding() - first_dow.c_encoding()): unsigned
\* 32-bit arithmetic, the result stored in an int.  The difference wraps to
\* 2^32 - (first_dow - wd) when wd's encoding is the smaller one; 6 minus it,
\* again modulo 2^32, is 6 + (first_dow - wd), which the int holds unchanged.
\* Both cases are the integer 6 - (wd - first_dow), in 0..12: the wrap-around
\* cancels and no reduction modulo 7 takes place.
RightEmptyDays(wd, first_dow) ==
  IF wd >= first_dow THEN 6 - (wd - first_dow) ELSE 6 + (first_dow - wd)

\* the blanks in front of the week number closing the last row
RightPadding(wd, first_dow) ==
  LET empty_days == RightEmptyDays(wd, first_dow)
  IN  IF empty_days > 0 /\ empty_days < 7 THEN Blanks(empty_days * 3) ELSE <<>>

\* a faulty LeadingBlanks, to show what the claim rests on: three blanks for each empty day
LeadingBlanks_Full(empty_days) ==
  IF empty_days > 0 THEN Blanks(empty_days * 3) ELSE <<>>

\* the blanks in front of day 1
LeadingBlanks(empty_days) ==
  IF empty_days > 0 THEN Blanks((empty_days * 3) - 1) ELSE <<>>

\* the loop over the days of the month; c holds what the loop only reads
RECURSIVE DayLoop(_, _, _, _, _)
DayLoop(d, wd, print_wd, os, c) ==
  IF d > c.last_day THEN os
  ELSE
    LET newrow == (wd = c.first_dow) /\ (d # 1)
        pw     == IF newrow THEN days_from_civil(c.year, c.month, d) ELSE print_wd
        lead   == IF wd # c.first_dow THEN <<Sp>>
                  ELSE IF d # 1
                  THEN (IF c.weeks_pos = "RIGHT" THEN <<Sp, Tok("week", print_wd)>> ELSE <<>>)
                       \o <<Nl>>
                       \o (IF c.weeks_pos = "LEFT" THEN <<Tok("week", pw), Sp>> ELSE <<>>)
                  ELSE <<>>
        cell   == <<DayCell(d, c.curr_day)>>
        tail   == IF c.weeks_pos = "RIGHT" /\ d = c.last_day
                  THEN RightPadding(wd, c.first_dow) \o <<Sp, Tok("week", pw)>>
                  ELSE <<>>
    IN  DayLoop(d + 1, (wd + 1) % DaysPerWeek, pw, os \o lead \o cell \o tail, c)

\* calendar_text past the cache test: the grid of ymd's month
CalendarBuild(ymd, curr_day, first_dow, pos, left_pad) ==
  LET weeks_pos  == WeeksSide(pos)
      os0        == IF weeks_pos = "LEFT" THEN Blanks(3 + left_pad) ELSE <<>>
      os1        == os0 \o weekdays_header(first_dow)
      print_wd   == days_from_civil(ymd.year, ymd.month, 1)
      wd         == weekday_of(print_wd)
      empty_days == weekday_diff(wd, first_dow)
      os2        == os1 \o (IF weeks_pos = "LEFT" THEN <<Tok("week", print_wd), Sp>> ELSE <<>>)
      os3        == os2 \o LeadingBlanks(empty_days)
      c          == [year |-> ymd.year, month |-> ymd.month, curr_day |-> curr_day,
                     first_dow |-> first_dow, weeks_pos |-> weeks_pos,
                     last_day |-> last_day_of(ymd.year, ymd.month)]
  IN  DayLoop(1, wd, print_wd, os3, c)

\* ------------------------------------------------------------- state
VARIABLES
  config,                  \* config_: the configuration the widget was built from
  ctor,                    \* "ok", or "threw" when the constructor raised
  time_zones_,             \* the zone list; "nullptr" stands for local time
  current_time_zone_idx_,  \* index into time_zones_, from 0
  is_calendar_in_tooltip_,
  calendar_shift_init_,    \* months per scroll step; 0: scrolling cycles the zones
  leave_connected,         \* the leave-notify handler is connected
  calendar_shift_,         \* months
  calendar_cached_ymd_,
  calendar_cached_text_,
  label_,                  \* what label_.set_markup was last given
  tooltip_,                \* what label_.set_tooltip_markup was last given
  now,                     \* std::chrono::system_clock::now(), in slots
  log,                     \* history: the scroll events since the last pointer-leave
  last_call                \* history: the last call of calendar_text

vars == <<config, ctor, time_zones_, current_time_zone_idx_, is_calendar_in_tooltip_,
          calendar_shift_init_, leave_connected, calendar_shift_, calendar_cached_ymd_,
          calendar_cached_text_, label_, tooltip_, now, log, last_call>>

\* ------------------------------------------------- timezone database
nullptr == "nullptr"
TzDatabase == {"UTC", "Pacific/Auckland"}

\* date::current_zone()
current_zone == "Local"

\* the offset of a zone's local time from UTC, in slots
UtcOffset(zone) == IF zone = "Pacific/Auckland" THEN SlotsPerDay \div 2 ELSE 0

\* date::locate_zone: the zone of that name; raises std::runtime_error for a
\* name the database does not hold
locate_zone(name) ==
  IF name \in TzDatabase THEN [threw |-> FALSE, zone |-> name]
  ELSE [threw |-> TRUE, zone |-> nullptr]

\* a JSON value where a zone name is expected
JsonString(str) == [isString |-> TRUE, s |-> str]
JsonOther == [isString |-> FALSE, s |-> ""]

\* ------------------------------------------------------- constructor
\* one entry of config_["timezones"]: the placeholder for a non-string or an
\* empty name, the located zone otherwise
ZoneOfEntry(zone_name) ==
  IF ~zone_name.isString \/ zone_name.s = ""
  THEN [threw |-> FALSE, zone |-> nullptr]
  ELSE locate_zone(zone_name.s)

\* the loop over config_["timezones"]; an exception ends it
RECURSIVE PushZones(_, _, _)
PushZones(arr, i, acc) ==
  IF i > Len(arr) THEN [threw |-> FALSE, zones |-> acc]
  ELSE LET r == ZoneOfEntry(arr[i])
       IN  IF r.threw THEN [threw |-> TRUE, zones |-> acc]
           ELSE PushZones(arr, i + 1, Append(acc, r.zone))

\* a faulty BuildZones, to show what the claim rests on: no placeholder when nothing was parsed
BuildZones_NoPlaceholder(cfg) ==
  IF Len(cfg.timezones) > 0 THEN PushZones(cfg.timezones, 1, <<>>)
  ELSE IF cfg.timezone.isString /\ cfg.timezone.s # ""
  THEN LET r == locate_zone(cfg.timezone.s)
       IN  [threw |-> r.threw, zones |-> IF r.threw THEN <<>> ELSE <<r.zone>>]
  ELSE [threw |-> FALSE, zones |-> <<>>]

\* the zone list the constructor builds
BuildZones(cfg) ==
  LET parsed ==
        IF Len(cfg.timezones) > 0 THEN PushZones(cfg.timezones, 1, <<>>)
        ELSE IF cfg.timezone.isString /\ cfg.timezone.s # ""
        THEN LET r == locate_zone(cfg.timezone.s)
             IN  [threw |-> r.threw, zones |-> IF r.threw THEN <<>> ELSE <<r.zone>>]
        ELSE [threw |-> FALSE, zones |-> <<>>]
  IN  IF ~parsed.threw /\ Len(parsed.zones) = 0
      THEN [threw |-> FALSE, zones |-> <<nullptr>>]
      ELSE parsed

\* the tooltip format holds the calendar placeholder
CalendarInTooltip(cfg) == cfg.tooltip_format = "calendar"

\* config_["on-scroll"]["calendar"] is an int (<<n>>) or is not (<<>>)
ShiftInit(cfg) ==
  IF CalendarInTooltip(cfg) /\ Len(cfg.on_scroll_calendar) = 1
  THEN cfg.on_scroll_calendar[1] ELSE 0

LeaveConnected(cfg) == CalendarInTooltip(cfg) /\ Len(cfg.on_scroll_calendar) = 1

\* calendar_cached_ymd_ before the first calendar_text: January 1 of year 0
NoYmd == [year |-> 0, month |-> 1, day |-> 1]

NoCall == [called |-> FALSE, hit |-> FALSE, shift |-> 0, t |-> 0, zone |-> nullptr]

Construct(cfg, t) ==
  LET z == BuildZones(cfg)
  IN  /\ config = cfg
      /\ ctor = IF z.threw THEN "threw" ELSE "ok"
      /\ time_zones_ = z.zones
      /\ current_time_zone_idx_ = 0
      /\ is_calendar_in_tooltip_ = (~z.threw /\ CalendarInTooltip(cfg))
      /\ calendar_shift_init_ = IF z.threw THEN 0 ELSE ShiftInit(cfg)
      /\ leave_connected = (~z.threw /\ LeaveConnected(cfg))
      /\ calendar_shift_ = 0
      /\ calendar_cached_ymd_ = NoYmd
      /\ calendar_cached_text_ = <<>>
      /\ label_ = <<>>
      /\ tooltip_ = <<>>
      /\ now = t
      /\ log = <<>>
      /\ last_call = NoCall

\* ------------------------------------------------------------ update
\* current_timezone()
current_timezone(idx) ==
  IF time_zones_[idx + 1] # nullptr THEN time_zones_[idx + 1] ELSE current_zone

is_timezone_fixed(idx) == time_zones_[idx + 1] # nullptr

floor_days(t) == t \div SlotsPerDay

\* shifted_date and now_shifted of update(): today's date with the month
\* moved, turned back into a time point at the same time of day
NowShifted(t, shift) ==
  LET today        == floor_days(t)
      shifted_date == ymd_plus_months(civil_from_days(today), shift)
  IN  (days_from_civil(shifted_date.year, shifted_date.month, shifted_date.day)
         * SlotsPerDay) + (t - (today * SlotsPerDay))

\* the date calendar_text keys its cache by: the local date of shifted_ztime
CalendarYmd(t, shift, zone) ==
  civil_from_days(floor_days(NowShifted(t, shift) + UtcOffset(zone)))

\* the cache test of calendar_text
CacheHit(ymd) == calendar_cached_ymd_ = ymd

\* calendar_text: [hit, text]
calendar_text(ymd, shift) ==
  IF CacheHit(ymd) THEN [hit |-> TRUE, text |-> calendar_cached_text_]
  ELSE [hit |-> FALSE,
        text |-> CalendarBuild(ymd, CurrDay(calendar_shift_init_, shift, ymd),
                               config.first_dow, config.calendar_weeks_pos,
                               config.fmt_weeks_left_pad)]

\* update() with the zone index and shift the caller has just set
Update(idx, shift) ==
  LET zone == current_timezone(idx)
      ymd  == CalendarYmd(now, shift, zone)
      cal  == calendar_text(ymd, shift)
  IN  /\ label_' = <<[fixed |-> is_timezone_fixed(idx), time |-> now + UtcOffset(zone)]>>
      /\ IF config.tooltip /\ config.tooltip_format # "none"
         THEN IF is_calendar_in_tooltip_
              THEN /\ calendar_cached_ymd_' = ymd
                   /\ calendar_cached_text_' = cal.text
                   /\ last_call' = [called |-> TRUE, hit |-> cal.hit, shift |-> shift, t |-> now,
                                   zone |-> zone]
                   /\ tooltip_' = <<[time |-> NowShifted(now, shift) + UtcOffset(zone),
                                     calendar |-> cal.text]>>
              ELSE /\ UNCHANGED <<calendar_cached_ymd_, calendar_cached_text_, last_call>>
                   /\ tooltip_' = <<[time |-> NowShifted(now, shift) + UtcOffset(zone),
                                     calendar |-> <<>>]>>
         ELSE UNCHANGED <<calendar_cached_ymd_, calendar_cached_text_, last_call, tooltip_>>

\* ------------------------------------------------------ scroll events
SCROLL_DIR == {"NONE", "UP", "DOWN", "LEFT", "RIGHT"}

\* a faulty ShiftStep, to show what the claim rests on: every scroll adds
ShiftStep_AlwaysAdd(dir, shift, shift_init) == shift + shift_init

\* the shift after a scroll event in calendar-shift mode
ShiftStep(dir, shift, shift_init) ==
  IF dir = "UP" THEN shift + shift_init ELSE shift - shift_init

\* faulty IdxUp and IdxDown, to show what the claims rest on: no wrap-around
IdxUp_NoWrap(idx, nr_zones) == idx + 1
IdxDown_NoWrap(idx, nr_zones) == IF idx = 0 THEN 0 ELSE idx - 1

\* the zone index after scroll-up / scroll-down
IdxUp(idx, nr_zones) == IF idx + 1 = nr_zones THEN 0 ELSE idx + 1
IdxDown(idx, nr_zones) == IF idx = 0 THEN nr_zones - 1 ELSE idx - 1

\* user commands are configured: handleScroll hands the event to AModule
UserScroll(cfg) == cfg.user_scroll

Event(dir) == [dir |-> dir, idx0 |-> current_time_zone_idx_, shift0 |-> calendar_shift_]

handleScroll(dir) ==
  /\ ctor = "ok"
  /\ Len(log) < MaxScrolls
  /\ log' = Append(log, Event(dir))
  /\ UNCHANGED <<config, ctor, time_zones_, is_calendar_in_tooltip_, calendar_shift_init_,
                 leave_connected, now>>
  /\ IF UserScroll(config)
     THEN UNCHANGED <<current_time_zone_idx_, calendar_shift_, calendar_cached_ymd_,
                      calendar_cached_text_, label_, tooltip_, last_call>>
     ELSE IF calendar_shift_init_ # 0
     THEN /\ calendar_shift_' = ShiftStep(dir, calendar_shift_, calendar_shift_init_)
          /\ UNCHANGED current_time_zone_idx_
          /\ Update(current_time_zone_idx_, calendar_shift_')
     ELSE IF dir \notin {"UP", "DOWN"} \/ Len(time_zones_) = 1
     THEN UNCHANGED <<current_time_zone_idx_, calendar_shift_, calendar_cached_ymd_,
                      calendar_cached_text_, label_, tooltip_, last_call>>
     ELSE /\ current_time_zone_idx_' =
               IF dir = "UP" THEN IdxUp(current_time_zone_idx_, Len(time_zones_))
               ELSE IdxDown(current_time_zone_idx_, Len(time_zones_))
          /\ UNCHANGED calendar_shift_
          /\ Update(current_time_zone_idx_', calendar_shift_)

HandleScroll == \E dir \in SCROLL_DIR : handleScroll(dir)

\* the leave-notify handler
AfterLeave(shift) == 0

LeaveNotify ==
  /\ ctor = "ok"
  /\ leave_connected
  /\ calendar_shift_' = AfterLeave(calendar_shift_)
  /\ log' = <<>>
  /\ UNCHANGED <<config, ctor, time_zones_, current_time_zone_idx_, is_calendar_in_tooltip_,
                 calendar_shift_init_, leave_connected, calendar_cached_ymd_,
                 calendar_cached_text_, label_, tooltip_, now, last_call>>

\* the timer thread's dp.emit(): update() on the UI thread
Tick ==
  /\ ctor = "ok"
  /\ Update(current_time_zone_idx_, calendar_shift_)
  /\ UNCHANGED <<config, ctor, time_zones_, current_time_zone_idx_, is_calendar_in_tooltip_,
                 calendar_shift_init_, leave_connected, calendar_shift_, now, log>>

\* --------------------------------------------------------- the clock
\* a time point: slot number slot of the day y-m-d (UTC)
At(y, m, d, slot) == (days_from_civil(y, m, d) * SlotsPerDay) + slot

\* the time points the wall clock passes through
Instants == {At(2024, 1, 31, 0), At(2024, 1, 31, 1), At(2024, 3, 2, 0)}

\* wall-clock time passes between two events
AdvanceTime ==
  /\ ctor = "ok"
  /\ \E t \in Instants : t > now /\ now' = t
  /\ UNCHANGED <<config, ctor, time_zones_, current_time_zone_idx_, is_calendar_in_tooltip_,
                 calendar_shift_init_, leave_connected, calendar_shift_, calendar_cached_ymd_,
                 calendar_cached_text_, label_, tooltip_, log, last_call>>

\* ---------------------------------------------------- configurations
ZoneEntries == {JsonOther, JsonString(""), JsonString("UTC"),
                JsonString("Pacific/Auckland"), JsonString("Mars/Olympus")}

\* config_["timezones"]: no array or an empty one (<<>>), or an array
TimezonesChoices ==
  UNION {[1..k -> ZoneEntries] : k \in 0..2}
    \cup {<<JsonString("UTC"), JsonString(""), JsonString("Pacific/Auckland")>>}

\* config_["timezone"]
TimezoneChoices == {JsonOther, JsonString(""), JsonString("UTC"), JsonString("Mars/Olympus")}

Cfg(tzs, tz, tf, tt, osc, us, fd, wp, lp) ==
  [timezones |-> tzs, timezone |-> tz, tooltip_format |-> tf, tooltip |-> tt,
   on_scroll_calendar |-> osc, user_scroll |-> us, first_dow |-> fd,
   calendar_weeks_pos |-> wp, fmt_weeks_left_pad |-> lp]

\* tooltip-format (without / with the calendar placeholder, or no string)
\* and whether tooltips are enabled
TooltipChoices == {<<"none", TRUE>>, <<"plain", TRUE>>, <<"calendar", TRUE>>,
                   <<"calendar", FALSE>>}

\* every zone configuration, the scroll commands varying
ZoneConfigs ==
  {Cfg(tzs, JsonOther, "plain", TRUE, <<>>, us, Sunday, "", 0) :
     tzs \in TimezonesChoices, us \in BOOLEAN}
  \cup {Cfg(<<>>, tz, "plain", TRUE, <<>>, FALSE, Sunday, "", 0) : tz \in TimezoneChoices}

\* every tooltip and scroll configuration, over three zone lists
ModeConfigs ==
  {Cfg(tzs, JsonOther, tt[1], tt[2], osc, us, Sunday, "right", 0) :
     tzs \in {<<>>, <<JsonString("UTC"), JsonString("Pacific/Auckland")>>,
              <<JsonString(""), JsonString("UTC"), JsonString("Pacific/Auckland")>>},
     tt \in TooltipChoices, osc \in {<<>>, <<0>>, <<1>>}, us \in BOOLEAN}

Configs == ZoneConfigs \cup ModeConfigs

Init == \E cfg \in Configs : Construct(cfg, At(2024, 1, 31, 0))

Next == HandleScroll \/ LeaveNotify \/ Tick \/ AdvanceTime

Spec == Init /\ [][Next]_vars

\* ------------------------------------------- the calendar of any month
Weekdays == 0..6

\* the months from 2000 to 2027: every month length with every weekday of day 1
Months == {ym \in (2000..2027) \X (1..12) : TRUE}

MonthKind(ym) == <<last_day_of(ym[1], ym[2]), weekday_of(days_from_civil(ym[1], ym[2], 1))>>

Earlier(a, b) == a[1] < b[1] \/ (a[1] = b[1] /\ a[2] <= b[2])

\* of the months of one kind, the first
CalMonths == {ym \in Months : \A other \in Months :
                MonthKind(other) = MonthKind(ym) => Earlier(ym, other)}

CalConfigs ==
  {Cfg(<<>>, JsonOther, "calendar", TRUE, <<>>, FALSE, fd, wp[1], wp[2]) :
     fd \in Weekdays, wp \in {<<"", 0>>, <<"left", 0>>, <<"left", 1>>, <<"right", 0>>}}

\* the days of the month the calendar is rendered on
CalDays == {1, 15, 28}

CalInit ==
  \E cfg \in CalConfigs, ym \in CalMonths, d \in CalDays :
    Construct(cfg, At(ym[1], ym[2], d, 0))

\* the render alone
CalNext == Tick

CalSpec == CalInit /\ [][CalNext]_vars

\* ================================================================ claims
\* ---------------------------------------------------- reading the log
Last(sq) == sq[Len(sq)]
CountDir(dir) == Cardinality({i \in 1..Len(log) : log[i].dir = dir})
OnlyUpDown == \A i \in 1..Len(log) : log[i].dir \in {"UP", "DOWN"}

\* scrolling cycles the zones / shifts the calendar
TimezoneCycleMode == ctor = "ok" /\ calendar_shift_init_ = 0 /\ ~config.user_scroll
CalendarShiftMode == ctor = "ok" /\ calendar_shift_init_ # 0 /\ ~config.user_scroll

\* ------------------------------------------- reading a calendar text
IsCell(tok) == tok.k \in {"day", "today"}
IsBlank(tok) == tok.k = "sp"
Positions(text, Test(_)) == {i \in 1..Len(text) : Test(text[i])}
Min(S) == CHOOSE x \in S : \A y \in S : x <= y
Max(S) == CHOOSE x \in S : \A y \in S : x >= y

\* the text after the header row
Body(text) ==
  LET nls == {i \in 1..Len(text) : text[i].k = "nl"}
  IN  SubSeq(text, Min(nls) + 1, Len(text))

\* the day rows: the stretches of the body between its newlines
Rows(text) ==
  LET body   == Body(text)
      nls    == {i \in 1..Len(body) : body[i].k = "nl"}
      Nth(r) == IF r = 0 THEN 0
                ELSE IF r > Cardinality(nls) THEN Len(body) + 1
                ELSE CHOOSE q \in nls : Cardinality({x \in nls : x < q}) = r - 1
  IN  [r \in 1..(Cardinality(nls) + 1) |-> SubSeq(body, Nth(r - 1) + 1, Nth(r) - 1)]

\* the day numbers of a row, in the order they appear
DaysOf(row) == LET cells == SelectSeq(row, IsCell) IN [i \in 1..Len(cells) |-> cells[i].v]

\* the blanks in front of the row's first day, the one after a week number
\* on the left not counted
LeadOf(row, pos) ==
  LET first == Min(Positions(row, IsCell))
  IN  Cardinality({i \in 1..(first - 1) : IsBlank(row[i])})
        - (IF WeeksSide(pos) = "LEFT" THEN 1 ELSE 0)

\* from the first day of a row to its last: days, one blank between two
WellSpaced(row) ==
  LET cells == Positions(row, IsCell)
      first == Min(cells)
      last  == Max(cells)
  IN  \A i \in first..last :
        IF (i - first) % 2 = 0 THEN IsCell(row[i]) ELSE IsBlank(row[i])

\* what follows the last day of the text
TailOf(text) == SubSeq(text, Max(Positions(text, IsCell)) + 1, Len(text))

\* calendar_text has built the text the cache holds
Built == last_call.called /\ ~last_call.hit

\* ---------------------------------------------------------------- C1
\* C1: once the widget is constructed, after any scroll events, pointer-leave
\* events, ticks and passing of time, the zone list has at least one entry
\* and current_time_zone_idx_ is an index into it.
C1_IndexValid ==
  ctor = "ok" =>
    /\ Len(time_zones_) >= 1
    /\ current_time_zone_idx_ >= 0
    /\ current_time_zone_idx_ < Len(time_zones_)

\* C1 witness: scroll-up has wrapped the index from the last zone to zone 0
C1_Witness ==
  /\ ctor = "ok" /\ Len(time_zones_) >= 2 /\ Len(log) >= 1
  /\ Last(log).dir = "UP" /\ Last(log).idx0 = Len(time_zones_) - 1
  /\ current_time_zone_idx_ = 0

\* ---------------------------------------------------------------- C2
\* C2: in timezone-cycle mode a scroll-up or scroll-down moves the index by
\* one circularly when there are two or more zones and leaves it alone when
\* there is one; up followed by down, and down followed by up, bring the
\* index back to where it started.
C2_CycleRoundTrip ==
  TimezoneCycleMode =>
    LET n == Len(time_zones_) IN
    /\ Len(log) >= 1 =>
         LET e == Last(log) IN
         /\ e.dir = "UP" =>
              current_time_zone_idx_ = IF n >= 2 THEN (e.idx0 + 1) % n ELSE e.idx0
         /\ e.dir = "DOWN" =>
              current_time_zone_idx_ = IF n >= 2 THEN (e.idx0 - 1) % n ELSE e.idx0
    /\ Len(log) >= 2 =>
         LET e1 == log[Len(log) - 1]
             e2 == log[Len(log)]
         IN  <<e1.dir, e2.dir>> \in {<<"UP", "DOWN">>, <<"DOWN", "UP">>} =>
               current_time_zone_idx_ = e1.idx0

\* C2 witness: from zone 0 of several, down (wrapping to the last) then up
C2_Witness ==
  /\ TimezoneCycleMode /\ Len(time_zones_) >= 2 /\ Len(log) >= 2
  /\ log[Len(log) - 1].dir = "DOWN" /\ log[Len(log) - 1].idx0 = 0
  /\ Last(log).dir = "UP" /\ Last(log).idx0 = Len(time_zones_) - 1
  /\ current_time_zone_idx_ = 0

\* ---------------------------------------------------------------- C3
\* the shift a run of scroll-ups and scroll-downs leaves, and the zone index
\* untouched
ShiftIsNetScroll(d) ==
  /\ OnlyUpDown => calendar_shift_ = d * (CountDir("UP") - CountDir("DOWN"))
  /\ Len(log) >= 1 =>
       /\ Last(log).dir = "UP" => calendar_shift_ = Last(log).shift0 + d
       /\ Last(log).dir = "DOWN" => calendar_shift_ = Last(log).shift0 - d
  /\ current_time_zone_idx_ = 0
  /\ \A i \in 1..Len(log) : log[i].idx0 = 0

\* C3 as stated: with the calendar placeholder in the tooltip format and a
\* non-zero on-scroll month amount d, the shift is d * (ups - downs) after
\* any scroll-ups and scroll-downs since the last pointer-leave (zero right
\* after one), and the zone index never changes.
C3_AsStated ==
  (ctor = "ok" /\ CalendarInTooltip(config) /\ Len(config.on_scroll_calendar) = 1
     /\ config.on_scroll_calendar[1] # 0)
    => ShiftIsNetScroll(config.on_scroll_calendar[1])

\* C3 amended: the same, provided no on-scroll-up / on-scroll-down user
\* command is configured (handleScroll hands the event over when one is).
C3_ShiftAccumulates ==
  CalendarShiftMode => ShiftIsNetScroll(calendar_shift_init_)

\* C3 witness: two scroll-downs in calendar-shift mode
C3_Witness ==
  /\ CalendarShiftMode /\ OnlyUpDown /\ CountDir("DOWN") >= 2
  /\ calendar_shift_ = (0 - 2) * calendar_shift_init_

\* ---------------------------------------------------------------- C4
\* C4: a scroll event whose direction is neither up nor down leaves the zone
\* index and the calendar shift as they were, in both modes.
C4_OtherDirNoOp ==
  (ctor = "ok" /\ Len(log) >= 1 /\ Last(log).dir \notin {"UP", "DOWN"}) =>
    /\ current_time_zone_idx_ = Last(log).idx0
    /\ calendar_shift_ = Last(log).shift0

\* ---------------------------------------------------------------- C5
\* C5: whenever calendar_text returns the cached string, that string is what
\* rebuilding the grid for the same date, the shift of that call (which
\* decides the highlighted day) and the configuration would give.
C5_CacheTransparent ==
  (last_call.called /\ last_call.hit) =>
    calendar_cached_text_ =
      CalendarBuild(calendar_cached_ymd_,
                    CurrDay(calendar_shift_init_, last_call.shift, calendar_cached_ymd_),
                    config.first_dow, config.calendar_weeks_pos, config.fmt_weeks_left_pad)

\* ---------------------------------------------------------------- C6
\* C6: with N the length of the month and k = (weekday of day 1 - first day
\* of week) mod 7, the grid has ceil((k + N) / 7) day rows after the header;
\* the first row holds k blank 3-character slots, then days 1..7-k; every
\* later row starts on the first day of the week; every row but the last
\* holds 7 slots; days 1..N appear once each, in increasing order.
C6_Grid ==
  Built =>
    LET ymd  == calendar_cached_ymd_
        N    == last_day_of(ymd.year, ymd.month)
        day1 == days_from_civil(ymd.year, ymd.month, 1)
        k    == (weekday_of(day1) - config.first_dow) % 7
        rows == Rows(calendar_cached_text_)
        all  == DaysOf(Body(calendar_cached_text_))
    IN  /\ Len(rows) = (k + N + 6) \div 7
        /\ LeadOf(rows[1], config.calendar_weeks_pos) = 3 * k
        /\ DaysOf(rows[1]) = [i \in 1..(7 - k) |-> i]
        /\ \A r \in 1..Len(rows) : WellSpaced(rows[r])
        /\ \A r \in 2..Len(rows) :
             /\ LeadOf(rows[r], config.calendar_weeks_pos) = 0
             /\ weekday_of(day1 + DaysOf(rows[r])[1] - 1) = config.first_dow
        /\ \A r \in 2..(Len(rows) - 1) : Len(DaysOf(rows[r])) = 7
        /\ all = [i \in 1..N |-> i]

\* C6 witness: a 31-day month that starts late in the week and takes 6 rows
C6_Witness ==
  /\ Built
  /\ last_day_of(calendar_cached_ymd_.year, calendar_cached_ymd_.month) = 31
  /\ Len(Rows(calendar_cached_text_)) = 6
  /\ LeadOf(Rows(calendar_cached_text_)[1], config.calendar_weeks_pos) = 18

\* ---------------------------------------------------------------- C7
\* C7: construction never fails because of a timezone entry: an entry that
\* is empty, not a string or unknown to the database becomes the local-time
\* placeholder.
C7_NeverFails ==
  /\ ctor = "ok"
  /\ Len(config.timezones) > 0 =>
       /\ Len(time_zones_) = Len(config.timezones)
       /\ \A i \in 1..Len(config.timezones) :
            (~config.timezones[i].isString \/ config.timezones[i].s \notin TzDatabase)
              => time_zones_[i] = nullptr

\* ---------------------------------------------------------------- C8
TodayCells(text) == {i \in 1..Len(text) : text[i].k = "today"}

\* C8 as stated: every text calendar_text builds wraps exactly one day cell
\* in the today format: the day of the month of the date shown, with or
\* without a month shift.
C8_AsStated ==
  Built =>
    /\ Cardinality(TodayCells(calendar_cached_text_)) = 1
    /\ \A i \in TodayCells(calendar_cached_text_) :
         calendar_cached_text_[i].v = calendar_cached_ymd_.day

\* C8 amended: a text built with zero shift wraps exactly one day cell, the
\* current day of the month; a text built while a non-zero month shift is
\* active wraps none; every other day cell has the normal format.
C8_TodayCell ==
  Built =>
    /\ last_call.shift = 0 =>
         /\ Cardinality(TodayCells(calendar_cached_text_)) = 1
         /\ \A i \in TodayCells(calendar_cached_text_) :
              /\ calendar_cached_text_[i].v = calendar_cached_ymd_.day
              /\ calendar_cached_ymd_ =
                   civil_from_days(floor_days(last_call.t + UtcOffset(last_call.zone)))
    /\ last_call.shift # 0 => TodayCells(calendar_cached_text_) = {}
    /\ Cardinality(Positions(calendar_cached_text_, IsCell)) =
         last_day_of(calendar_cached_ymd_.year, calendar_cached_ymd_.month)

\* C8 witness: a text built while the calendar is shifted
C8_Witness ==
  /\ Built /\ last_call.shift # 0 /\ calendar_shift_init_ # 0
  /\ TodayCells(calendar_cached_text_) = {}

\* ---------------------------------------------------------------- C9
\* C9: with the week numbers on the right, the last row is padded with
\* 3 * (6 - ((wd - first day of week) mod 7)) blanks before its week number,
\* wd being the weekday of the month's last day.
C9_RightPadding ==
  (Built /\ WeeksSide(config.calendar_weeks_pos) = "RIGHT") =>
    LET ymd  == calendar_cached_ymd_
        N    == last_day_of(ymd.year, ymd.month)
        wd   == weekday_of(days_from_civil(ymd.year, ymd.month, N))
        pad  == 3 * (6 - ((wd - config.first_dow) % 7))
        tail == TailOf(calendar_cached_text_)
    IN  /\ Len(tail) = pad + 2
        /\ \A i \in 1..(pad + 1) : IsBlank(tail[i])
        /\ tail[Len(tail)].k = "week"

\* --------------------------------------------------------------- C10
\* C10: the month whose grid update() asks calendar_text for is the current
\* month plus the accumulated shift, whatever the day of the month.
C10_ShiftedMonth ==
  (last_call.called /\ calendar_shift_init_ # 0) =>
    LET today == civil_from_days(floor_days(last_call.t + UtcOffset(last_call.zone)))
        want  == ymd_plus_months(today, last_call.shift)
    IN  /\ calendar_cached_ymd_.year = want.year
        /\ calendar_cached_ymd_.month = want.month

====
